---- MODULE Spec2Model ----
(***************************************************************************)
(* A model of webshot's image comparison engine (src/src/comparison.rs).  *)
(*                                                                         *)
(* f64 values are modelled as exact extended reals: NaN, the two           *)
(* infinities, and exact numbers.  Rounding is not modelled; NaN, division *)
(* by zero and the NaN rules of f64::min, f64::max, f64::clamp and of the  *)
(* comparison operators are.  An exact number is held in one of three      *)
(* shapes, so that every value fits TLC's integers:                        *)
(*   "q"   n/d                  a rational in lowest terms, d > 0          *)
(*   "qq"  (pn/pd)*(qn/qd)      a product of two rationals (SSIM)          *)
(*   "log" log10(n/d)/10        a scaled logarithm (PSNR)                  *)
(***************************************************************************)
EXTENDS Integers, Sequences, FiniteSets, TLC

\* Largest width, height and pixel count (width*height) of an enumerated image.
MaxPixels == 2

\* ------------------------------------------------------------------------
\* Natural numbers beyond TLC's 32 bits: little-endian digit sequences.
\* ------------------------------------------------------------------------

BigBase == 100 * 100

RECURSIVE BigOfNat(_)
BigOfNat(n) == IF n = 0 THEN <<>> ELSE <<n % BigBase>> \o BigOfNat(n \div BigBase)

RECURSIVE BigTrim(_)
BigTrim(x) ==
    IF x = <<>> THEN <<>>
    ELSE IF x[Len(x)] = 0 THEN BigTrim(SubSeq(x, 1, Len(x) - 1)) ELSE x

RECURSIVE BigAddC(_, _, _)
BigAddC(x, y, carry) ==
    IF x = <<>> /\ y = <<>> THEN (IF carry = 0 THEN <<>> ELSE <<carry>>)
    ELSE LET a == IF x = <<>> THEN 0 ELSE Head(x)
             b == IF y = <<>> THEN 0 ELSE Head(y)
             s == a + b + carry
         IN  <<s % BigBase>> \o BigAddC(IF x = <<>> THEN <<>> ELSE Tail(x),
                                        IF y = <<>> THEN <<>> ELSE Tail(y),
                                        s \div BigBase)

BigAdd(x, y) == BigTrim(BigAddC(x, y, 0))

\* x times one digit m (0 <= m < BigBase)
RECURSIVE BigMulDigit(_, _, _)
BigMulDigit(x, m, carry) ==
    IF x = <<>> THEN (IF carry = 0 THEN <<>> ELSE <<carry>>)
    ELSE LET s == Head(x) * m + carry
         IN  <<s % BigBase>> \o BigMulDigit(Tail(x), m, s \div BigBase)

RECURSIVE BigMul(_, _)
BigMul(x, y) ==
    IF y = <<>> \/ x = <<>> THEN <<>>
    ELSE BigAdd(BigTrim(BigMulDigit(x, Head(y), 0)),
                LET r == BigMul(x, Tail(y)) IN IF r = <<>> THEN <<>> ELSE <<0>> \o r)

RECURSIVE BigPow(_, _)
BigPow(x, e) ==
    IF e = 0 THEN <<1>> ELSE IF e = 1 THEN x ELSE BigMul(x, BigPow(x, e - 1))

\* 10^t
BigPow10(t) == [i \in 1..(t \div 4) |-> 0] \o <<10 ^ (t % 4)>>

\* -1, 0 or 1 as x < y, x = y, x > y (both trimmed)
RECURSIVE BigCmpFrom(_, _, _)
BigCmpFrom(x, y, i) ==
    IF i = 0 THEN 0
    ELSE IF x[i] < y[i] THEN -1
    ELSE IF x[i] > y[i] THEN 1
    ELSE BigCmpFrom(x, y, i - 1)

BigCmp(x, y) ==
    IF Len(x) < Len(y) THEN -1
    ELSE IF Len(x) > Len(y) THEN 1
    ELSE BigCmpFrom(x, y, Len(x))

\* x - y for x >= y
RECURSIVE BigSubB(_, _, _)
BigSubB(x, y, borrow) ==
    IF x = <<>> THEN <<>>
    ELSE LET b == IF y = <<>> THEN 0 ELSE Head(y)
             d == Head(x) - b - borrow
         IN  <<(d + BigBase) % BigBase>>
             \o BigSubB(Tail(x), IF y = <<>> THEN <<>> ELSE Tail(y), IF d < 0 THEN 1 ELSE 0)

BigSub(x, y) == BigTrim(BigSubB(x, y, 0))

\* ------------------------------------------------------------------------
\* u32 arithmetic.  A u32 value is held as a digit sequence, since TLC's
\* integers end at 2^31 - 1.  A product that does not fit panics in a build
\* with overflow checks (the dev profile) and wraps modulo 2^32 in a build
\* without them (the release profile).
\* ------------------------------------------------------------------------

\* 2^32
U32Modulus == BigMul(BigOfNat(65536), BigOfNat(65536))

\* x modulo 2^32
RECURSIVE wrapping(_)
wrapping(x) == IF BigCmp(x, U32Modulus) < 0 THEN x ELSE wrapping(BigSub(x, U32Modulus))

Value(x) == [tag |-> "Value", val |-> x]
Panic(message) == [tag |-> "Panic", message |-> message]

\* a * b on u32
u32_mul(a, b, overflow_checks) ==
    IF BigCmp(BigMul(a, b), U32Modulus) < 0 THEN Value(BigMul(a, b))
    ELSE IF overflow_checks THEN Panic("attempt to multiply with overflow")
    ELSE Value(wrapping(BigMul(a, b)))

\* ------------------------------------------------------------------------
\* Rationals in lowest terms
\* ------------------------------------------------------------------------

Abs(i) == IF i < 0 THEN 0 - i ELSE i

RECURSIVE Gcd(_, _)
Gcd(a, b) == IF b = 0 THEN a ELSE Gcd(b, a % b)

\* the rational n/d (d # 0) in lowest terms with a positive denominator
Q(n, d) ==
    LET g == Gcd(Abs(n), Abs(d))
        s == IF d < 0 THEN -1 ELSE 1
    IN  [k |-> "q", n |-> s * (n \div g), d |-> s * (d \div g)]

NaN == [k |-> "nan"]
PosInf == [k |-> "inf", s |-> 1]
NegInf == [k |-> "inf", s |-> -1]
Zero == Q(0, 1)
One == Q(1, 1)

IsNaN(x) == x.k = "nan"
IsInf(x) == x.k = "inf"
IsQ(x) == x.k = "q"

\* i as f64 (an integer conversion: u8, u32 or a literal)
F(i) == Q(i, 1)

Sign(i) == IF i < 0 THEN -1 ELSE IF i > 0 THEN 1 ELSE 0

\* the sign of an exact number or an infinity
FSign(x) ==
    CASE x.k = "inf" -> x.s
      [] x.k = "q" -> Sign(x.n)
      [] x.k = "qq" -> Sign(x.pn) * Sign(x.qn)
      [] x.k = "log" -> IF x.n > x.d THEN 1 ELSE IF x.n < x.d THEN -1 ELSE 0

\* ------------------------------------------------------------------------
\* f64 arithmetic on NaN, infinities and rationals
\* ------------------------------------------------------------------------

Lcm(a, b) == (a \div Gcd(a, b)) * b

QAdd(x, y) ==
    LET l == Lcm(x.d, y.d) IN Q(x.n * (l \div x.d) + y.n * (l \div y.d), l)

QNeg(x) == Q(0 - x.n, x.d)

\* cross-cancelled, so that the products stay small
QMul(x, y) ==
    LET g1 == Gcd(Abs(x.n), y.d)
        g2 == Gcd(Abs(y.n), x.d)
    IN  Q((x.n \div g1) * (y.n \div g2), (x.d \div g2) * (y.d \div g1))

\* y # 0
QInv(y) == Q(y.d, y.n)

FNeg(x) ==
    CASE x.k = "nan" -> NaN
      [] x.k = "inf" -> [k |-> "inf", s |-> 0 - x.s]
      [] OTHER -> QNeg(x)

FAdd(x, y) ==
    CASE IsNaN(x) \/ IsNaN(y) -> NaN
      [] IsInf(x) /\ IsInf(y) -> IF x.s = y.s THEN x ELSE NaN
      [] IsInf(x) -> x
      [] IsInf(y) -> y
      [] OTHER -> QAdd(x, y)

FSub(x, y) == FAdd(x, FNeg(y))

FMul(x, y) ==
    CASE IsNaN(x) \/ IsNaN(y) -> NaN
      [] IsInf(x) \/ IsInf(y) ->
            IF FSign(x) * FSign(y) = 0 THEN NaN
            ELSE [k |-> "inf", s |-> FSign(x) * FSign(y)]
      [] OTHER -> QMul(x, y)

\* IEEE division: 0/0 and inf/inf are NaN, x/0 is an infinity
FDiv(x, y) ==
    CASE IsNaN(x) \/ IsNaN(y) -> NaN
      [] IsInf(x) /\ IsInf(y) -> NaN
      [] IsInf(x) -> [k |-> "inf", s |-> x.s * (IF FSign(y) < 0 THEN -1 ELSE 1)]
      [] IsInf(y) -> Zero
      [] y.n = 0 -> IF x.n = 0 THEN NaN ELSE [k |-> "inf", s |-> Sign(x.n)]
      [] OTHER -> QMul(x, QInv(y))

\* x ? p/q for an exact x and a rational p/q: -1, 0, 1
CmpQ(x, y) ==
    CASE x.k = "q" -> Sign(x.n * y.d - y.n * x.d)
      [] x.k = "qq" ->
            \* a non-zero product: by sign, then |pn*qn|*y.d ? |y.n|*(pd*qd)
            LET sx == Sign(x.pn) * Sign(x.qn)
            IN  IF sx # Sign(y.n) THEN Sign(sx - Sign(y.n))
                ELSE sx * BigCmp(BigMul(BigMul(BigOfNat(Abs(x.pn)), BigOfNat(Abs(x.qn))),
                                        BigOfNat(y.d)),
                                 BigMul(BigMul(BigOfNat(x.pd), BigOfNat(x.qd)),
                                        BigOfNat(Abs(y.n))))
      [] x.k = "log" ->
            \* log10(n/d)/10 ? p/q  iff  (n/d)^e ? 10^t  with t/e = 10p/q, e > 0
            LET r == Q(10 * y.n, y.d)
                e == r.d
                t == r.n
            IN  IF t >= 0
                THEN BigCmp(BigPow(BigOfNat(x.n), e),
                            BigMul(BigPow10(t), BigPow(BigOfNat(x.d), e)))
                ELSE BigCmp(BigMul(BigPow10(0 - t), BigPow(BigOfNat(x.n), e)),
                            BigPow(BigOfNat(x.d), e))

\* x ? y for non-NaN x and y, where y is a rational or an infinity
FCmp(x, y) ==
    CASE IsInf(x) /\ IsInf(y) -> Sign(x.s - y.s)
      [] IsInf(x) -> x.s
      [] IsInf(y) -> 0 - y.s
      [] OTHER -> CmpQ(x, y)

\* the comparison operators of f64: every comparison with NaN is false
FGe(x, y) == ~IsNaN(x) /\ ~IsNaN(y) /\ FCmp(x, y) >= 0
FLe(x, y) == ~IsNaN(x) /\ ~IsNaN(y) /\ FCmp(x, y) <= 0
FLt(x, y) == ~IsNaN(x) /\ ~IsNaN(y) /\ FCmp(x, y) < 0
FEq(x, y) == ~IsNaN(x) /\ ~IsNaN(y) /\ FCmp(x, y) = 0

\* f64::min and f64::max: if one argument is NaN the other is returned
FMin(x, y) == IF IsNaN(x) THEN y ELSE IF IsNaN(y) THEN x ELSE IF FCmp(x, y) <= 0 THEN x ELSE y
FMax(x, y) == IF IsNaN(x) THEN y ELSE IF IsNaN(y) THEN x ELSE IF FCmp(x, y) >= 0 THEN x ELSE y

\* f64::clamp(lo, hi): NaN stays NaN
FClamp(x, lo, hi) ==
    IF IsNaN(x) THEN NaN
    ELSE IF FCmp(x, lo) < 0 THEN lo
    ELSE IF FCmp(x, hi) > 0 THEN hi
    ELSE x

\* (x*y)/(z*w) for rationals z, w > 0, held as the product (x/z)*(y/w)
FProdRatio(x, y, z, w) ==
    IF IsNaN(x) \/ IsNaN(y) \/ IsNaN(z) \/ IsNaN(w) THEN NaN
    ELSE LET p == FDiv(x, z)
             q == FDiv(y, w)
         IN  IF p.n = 0 \/ q.n = 0 THEN Zero
             ELSE IF p = One THEN q
             ELSE IF q = One THEN p
             ELSE [k |-> "qq", pn |-> p.n, pd |-> p.d, qn |-> q.n, qd |-> q.d]

\* log10(x)/10 for a rational x > 0 (NaN for NaN)
FLog10Tenth(x) ==
    IF IsNaN(x) THEN NaN
    ELSE IF x = One THEN Zero
    ELSE [k |-> "log", n |-> x.n, d |-> x.d]

\* 0.0 <= x <= 1.0
InUnit(x) == FGe(x, Zero) /\ FLe(x, One)

\* ------------------------------------------------------------------------
\* Images: width, height and the pixels in row-major order
\* ------------------------------------------------------------------------

Red == <<255, 0, 0>>
NearRed == <<250, 5, 5>>
DarkRed == <<250, 0, 0>>
Green == <<0, 255, 0>>
Blue == <<0, 0, 255>>

\* the pixel values the enumerated images are painted with
Palette == {Red, NearRed, Green}

Dimensions == {d \in (0..MaxPixels) \X (0..MaxPixels) : d[1] * d[2] <= MaxPixels}

Image(w, h, px) == [width |-> w, height |-> h, px |-> px]

ImagesOf(d) == {Image(d[1], d[2], px) : px \in [1..(d[1] * d[2]) -> Palette]}

\* ImageBuffer::from_fn(width, height, |_, _| Rgb(color))
create_test_image(w, h, color) == Image(w, h, [i \in 1..(w * h) |-> color])

dimensions(img) == <<img.width, img.height>>

\* (x, y) with 0 <= x < width and 0 <= y < height
get_pixel(img, x, y) == img.px[y * img.width + x + 1]

\* the positions in the order of "for y in 0..height { for x in 0..width"
Positions(img) == [i \in 1..(img.width * img.height) |->
                      <<(i - 1) % img.width, (i - 1) \div img.width>>]

\* the image pairs compared: every pair of equal dimensions, and for every two
\* different dimensions a pair of solid images
ImagePairs ==
    {<<a, b>> : a \in UNION {ImagesOf(d) : d \in Dimensions},
                b \in UNION {ImagesOf(d) : d \in Dimensions}}

\* pairs in which one image is nowhere brighter than the other, in both orders
OrderedPairs ==
    {<<create_test_image(1, 1, Red), create_test_image(1, 1, DarkRed)>>,
     <<create_test_image(1, 1, DarkRed), create_test_image(1, 1, Red)>>,
     <<Image(2, 1, <<Red, DarkRed>>), create_test_image(2, 1, DarkRed)>>,
     <<create_test_image(2, 1, DarkRed), Image(2, 1, <<Red, DarkRed>>)>>}

InputPairs ==
    {p \in ImagePairs :
        \/ dimensions(p[1]) = dimensions(p[2])
        \/ /\ p[1] = create_test_image(p[1].width, p[1].height, Red)
           /\ p[2] = create_test_image(p[2].width, p[2].height, Red)}
    \cup OrderedPairs

\* the sum of a sequence of integers, from index i on
RECURSIVE SumOver(_, _)
SumOver(values, i) == IF i > Len(values) THEN 0 ELSE values[i] + SumOver(values, i + 1)

\* the sum of a sequence of f64 values, from index i on
RECURSIVE FSumOver(_, _)
FSumOver(values, i) ==
    IF i > Len(values) THEN Zero ELSE FAdd(values[i], FSumOver(values, i + 1))

\* Option<T>: None is the empty sequence, Some(x) the sequence of x alone
None == <<>>
Some(x) == <<x>>

\* ------------------------------------------------------------------------
\* The scoring algorithms
\* ------------------------------------------------------------------------

\* a wrong strict tolerance
Tolerance_loose(ignore_antialiasing) == IF ignore_antialiasing THEN 10 ELSE 5

\* the per-channel tolerance of pixels_similar
Tolerance(ignore_antialiasing) == IF ignore_antialiasing THEN 10 ELSE 2

\* a classifier without the absolute value: the first pixel may be darker by
\* any amount
pixels_similar_signed(pixel1, pixel2, ignore_antialiasing) ==
    IF pixel1 = pixel2 THEN TRUE
    ELSE LET threshold == Tolerance(ignore_antialiasing)
             r_diff == pixel1[1] - pixel2[1]
             g_diff == pixel1[2] - pixel2[2]
             b_diff == pixel1[3] - pixel2[3]
         IN  r_diff <= threshold /\ g_diff <= threshold /\ b_diff <= threshold

\* a classifier that is content with one channel within the tolerance
pixels_similar_any_channel(pixel1, pixel2, ignore_antialiasing) ==
    IF pixel1 = pixel2 THEN TRUE
    ELSE LET threshold == Tolerance(ignore_antialiasing)
             r_diff == Abs(pixel1[1] - pixel2[1])
             g_diff == Abs(pixel1[2] - pixel2[2])
             b_diff == Abs(pixel1[3] - pixel2[3])
         IN  r_diff <= threshold \/ g_diff <= threshold \/ b_diff <= threshold

pixels_similar(pixel1, pixel2, ignore_antialiasing) ==
    IF pixel1 = pixel2 THEN TRUE
    ELSE LET threshold == Tolerance(ignore_antialiasing)
             r_diff == Abs(pixel1[1] - pixel2[1])
             g_diff == Abs(pixel1[2] - pixel2[2])
             b_diff == Abs(pixel1[3] - pixel2[3])
         IN  r_diff <= threshold /\ g_diff <= threshold /\ b_diff <= threshold

\* a count that leaves out the first position of the loops
pixel_diff_comparison_skips_first(img1, img2, options) ==
    LET Differs(p) == IF ~pixels_similar(get_pixel(img1, p[1], p[2]),
                                         get_pixel(img2, p[1], p[2]),
                                         options.ignore_antialiasing)
                      THEN 1 ELSE 0
        different_pixels ==
            SumOver([i \in DOMAIN Positions(img1) |-> Differs(Positions(img1)[i])], 2)
        total_pixels == img1.width * img1.height
        similarity == FSub(One, FDiv(F(different_pixels), F(total_pixels)))
    IN  <<similarity, Some(different_pixels)>>

\* 1.0 - (different_pixels as f64 / total_pixels as f64), with the count
PixelDiffResult(different_pixels, total_pixels) ==
    <<FSub(One, FDiv(F(different_pixels), F(total_pixels))), Some(different_pixels)>>

\* <<similarity, Some(different_pixels)>>; the loops over y and x visit the
\* pixels in row-major order, get_pixel(img, x, y) being img.px[y * width + x + 1]
pixel_diff_comparison(img1, img2, options) ==
    PixelDiffResult(
        SumOver([i \in 1..(img1.width * img1.height) |->
                    IF ~pixels_similar(img1.px[i], img2.px[i], options.ignore_antialiasing)
                    THEN 1 ELSE 0], 1),
        img1.width * img1.height)

\* the sum over all pixels and the three channels of the squared difference
SquaredError(img1, img2) ==
    LET At(p) == LET pixel1 == get_pixel(img1, p[1], p[2])
                     pixel2 == get_pixel(img2, p[1], p[2])
                 IN  (pixel1[1] - pixel2[1]) * (pixel1[1] - pixel2[1])
                   + (pixel1[2] - pixel2[2]) * (pixel1[2] - pixel2[2])
                   + (pixel1[3] - pixel2[3]) * (pixel1[3] - pixel2[3])
    IN  SumOver([i \in DOMAIN Positions(img1) |-> At(Positions(img1)[i])], 1)

MeanSquaredError(img1, img2) ==
    FDiv(F(SquaredError(img1, img2)), F(img1.width * img1.height * 3))

mse_comparison(img1, img2) ==
    LET mse == MeanSquaredError(img1, img2)
    IN  FDiv(One, FAdd(One, FDiv(mse, F(255))))

psnr_comparison(img1, img2) ==
    LET mse == MeanSquaredError(img1, img2)
    IN  IF FEq(mse, Zero) THEN One
        ELSE \* psnr = 20*log10(255) - 10*log10(mse) = 10*log10(255*255/mse),
             \* held as psnr/100; psnr < 0.0 exactly when psnr/100 < 0.0
             LET psnr100 == FLog10Tenth(FDiv(F(255 * 255), mse))
             IN  IF FLt(psnr100, Zero) THEN Zero ELSE FMin(psnr100, One)

\* the luminance of a pixel, truncated by "as u8"
GrayValue(pixel) == (299 * pixel[1] + 587 * pixel[2] + 114 * pixel[3]) \div 1000

rgb_to_grayscale(img) ==
    Image(img.width, img.height,
          [i \in 1..(img.width * img.height) |-> <<GrayValue(img.px[i])>>])

calculate_ssim(img1, img2) ==
    LET k1 == Q(1, 100)
        k2 == Q(3, 100)
        l == F(255)
        c1 == FMul(FMul(k1, l), FMul(k1, l))
        c2 == FMul(FMul(k2, l), FMul(k2, l))
        ps == Positions(img1)
        V1(p) == get_pixel(img1, p[1], p[2])[1]
        V2(p) == get_pixel(img2, p[1], p[2])[1]
        total_pixels == F(img1.width * img1.height)
        mean1 == FDiv(F(SumOver([i \in DOMAIN ps |-> V1(ps[i])], 1)), total_pixels)
        mean2 == FDiv(F(SumOver([i \in DOMAIN ps |-> V2(ps[i])], 1)), total_pixels)
        Diff1(p) == FSub(F(V1(p)), mean1)
        Diff2(p) == FSub(F(V2(p)), mean2)
        Sq1(p) == FMul(Diff1(p), Diff1(p))
        Sq2(p) == FMul(Diff2(p), Diff2(p))
        Co(p) == FMul(Diff1(p), Diff2(p))
        var1 == FDiv(FSumOver([i \in DOMAIN ps |-> Sq1(ps[i])], 1), FSub(total_pixels, One))
        var2 == FDiv(FSumOver([i \in DOMAIN ps |-> Sq2(ps[i])], 1), FSub(total_pixels, One))
        covar == FDiv(FSumOver([i \in DOMAIN ps |-> Co(ps[i])], 1), FSub(total_pixels, One))
        \* numerator = n1 * n2, denominator = d1 * d2
        n1 == FAdd(FMul(FMul(F(2), mean1), mean2), c1)
        n2 == FAdd(FMul(F(2), covar), c2)
        d1 == FAdd(FAdd(FMul(mean1, mean1), FMul(mean2, mean2)), c1)
        d2 == FAdd(FAdd(var1, var2), c2)
        ssim == FProdRatio(n1, n2, d1, d2)
    IN  FMin(FMax(ssim, Zero), One)

ssim_comparison(img1, img2) ==
    calculate_ssim(rgb_to_grayscale(img1), rgb_to_grayscale(img2))

\* ssim_comparison of every pair of images of equal dimensions, computed once
ssim_scores ==
    <<>> @@ [p \in {q \in InputPairs : dimensions(q[1]) = dimensions(q[2])} |->
                ssim_comparison(p[1], p[2])]

\* mse_comparison and psnr_comparison of every pair of equal dimensions
mse_scores ==
    <<>> @@ [p \in {q \in InputPairs : dimensions(q[1]) = dimensions(q[2])} |->
                mse_comparison(p[1], p[2])]

psnr_scores ==
    <<>> @@ [p \in {q \in InputPairs : dimensions(q[1]) = dimensions(q[2])} |->
                psnr_comparison(p[1], p[2])]

\* a synthesizer that paints by the strict tolerance, whatever the options say
Painted_strict(img1, img2, options, i) ==
    ~pixels_similar(img1.px[i], img2.px[i], FALSE)

\* generate_diff_image takes the highlighting branch at the i-th position
Painted(img1, img2, options, i) ==
    ~pixels_similar(img1.px[i], img2.px[i], options.ignore_antialiasing)

\* a diff image that keeps the second image's pixel where the pair is similar
DiffImage_copies_second(img1, img2, options) ==
    Image(img1.width, img1.height,
          [i \in 1..(img1.width * img1.height) |->
              IF pixels_similar(img1.px[i], img2.px[i], options.ignore_antialiasing)
              THEN img2.px[i]
              ELSE options.diff_color])

\* a diff image that follows the scoring algorithm: the tolerance classifier
\* under PixelDiff only, exact equality under the other algorithms
DiffImage_by_algorithm(img1, img2, options) ==
    Image(img1.width, img1.height,
          [i \in 1..(img1.width * img1.height) |->
              IF IF options.algorithm = "PixelDiff"
                 THEN pixels_similar(img1.px[i], img2.px[i], options.ignore_antialiasing)
                 ELSE img1.px[i] = img2.px[i]
              THEN img1.px[i]
              ELSE options.diff_color])

\* the image generate_diff_image builds before saving it
DiffImage(img1, img2, options) ==
    Image(img1.width, img1.height,
          [i \in 1..(img1.width * img1.height) |->
              IF Painted(img1, img2, options, i)
              THEN options.diff_color
              ELSE img1.px[i]])

\* ------------------------------------------------------------------------
\* Errors and results
\* ------------------------------------------------------------------------

\* Result<T>
Ok(v) == [tag |-> "Ok", val |-> v]
Err(e) == [tag |-> "Err", err |-> e]
\* no call has returned yet
NotCalled == [tag |-> "none"]

\* WebshotError::config(format!(text, args...))
WebshotError_config(text, args) ==
    [variant |-> "Config", message |-> [text |-> text, args |-> args]]

\* ------------------------------------------------------------------------
\* ComparisonOptions
\* ------------------------------------------------------------------------

Algorithms == {"PixelDiff", "SSIM", "MSE", "PSNR"}

ComparisonOptions_default ==
    [algorithm |-> "PixelDiff",
     threshold |-> Q(1, 10),
     generate_diff_image |-> FALSE,
     diff_output_path |-> None,
     ignore_antialiasing |-> FALSE,
     diff_color |-> Red]

ComparisonOptions_new == ComparisonOptions_default

ComparisonOptions_algorithm(self, algorithm) == [self EXCEPT !.algorithm = algorithm]

ComparisonOptions_threshold(self, threshold) ==
    [self EXCEPT !.threshold = FClamp(threshold, Zero, One)]

\* a builder that sets the flag and leaves the path alone
ComparisonOptions_generate_diff_image_flag_only(self, output_path) ==
    [self EXCEPT !.generate_diff_image = TRUE]

ComparisonOptions_generate_diff_image(self, output_path) ==
    [self EXCEPT !.generate_diff_image = TRUE, !.diff_output_path = Some(output_path)]

ComparisonOptions_ignore_antialiasing(self) == [self EXCEPT !.ignore_antialiasing = TRUE]

ComparisonOptions_diff_color(self, r, g, b) == [self EXCEPT !.diff_color = <<r, g, b>>]

\* (0.0..=1.0).contains(&threshold)
ThresholdInRange(threshold) == FLe(Zero, threshold) /\ FLe(threshold, One)

\* the range check written with an exclusive upper end, (0.0..1.0)
ComparisonOptions_validate_exclusive(self) ==
    IF ~(FLe(Zero, self.threshold) /\ FLt(self.threshold, One))
    THEN Err(WebshotError_config("Threshold must be between 0.0 and 1.0, got: {}",
                                 <<self.threshold>>))
    ELSE IF self.generate_diff_image /\ self.diff_output_path = None
    THEN Err(WebshotError_config(
                "Diff output path must be specified when generating diff image", <<>>))
    ELSE Ok(<<>>)

ComparisonOptions_validate(self) ==
    IF ~ThresholdInRange(self.threshold)
    THEN Err(WebshotError_config("Threshold must be between 0.0 and 1.0, got: {}",
                                 <<self.threshold>>))
    ELSE IF self.generate_diff_image /\ self.diff_output_path = None
    THEN Err(WebshotError_config(
                "Diff output path must be specified when generating diff image", <<>>))
    ELSE Ok(<<>>)

\* ------------------------------------------------------------------------
\* ImageComparator
\* ------------------------------------------------------------------------

\* a verdict that requires the similarity to exceed the bound
Verdict_strict(similarity, threshold) ==
    FGe(similarity, FSub(One, threshold)) /\ ~FEq(similarity, FSub(One, threshold))

\* the threshold taken as the least similarity: similarity >= options.threshold
Verdict_no_complement(similarity, threshold) == FGe(similarity, threshold)

\* similarity >= (1.0 - options.threshold)
Verdict(similarity, threshold) == FGe(similarity, FSub(One, threshold))

\* every algorithm reporting the count of differing pixels
Score_always_counts(img1, img2, options) ==
    LET count == pixel_diff_comparison(img1, img2, options)[2]
    IN  CASE options.algorithm = "PixelDiff" -> pixel_diff_comparison(img1, img2, options)
          [] options.algorithm = "SSIM" -> <<ssim_comparison(img1, img2), count>>
          [] options.algorithm = "MSE" -> <<mse_comparison(img1, img2), count>>
          [] options.algorithm = "PSNR" -> <<psnr_comparison(img1, img2), count>>

\* <<similarity, different_pixels>> of the algorithm options.algorithm selects
Score(img1, img2, options) ==
    CASE options.algorithm = "PixelDiff" -> pixel_diff_comparison(img1, img2, options)
      [] options.algorithm = "SSIM" -> <<ssim_scores[<<img1, img2>>], None>>
      [] options.algorithm = "MSE" -> <<mse_scores[<<img1, img2>>], None>>
      [] options.algorithm = "PSNR" -> <<psnr_scores[<<img1, img2>>], None>>

\* a save that stores the diff image under every path
generate_diff_image_everywhere(img1, img2, output_path, options, files, save_ok) ==
    IF save_ok
    THEN [files |-> [p \in DOMAIN files |-> Some(DiffImage(img1, img2, options))],
          ret |-> Ok(<<>>)]
    ELSE [files |-> files,
          ret |-> Err(WebshotError_config("Failed to save diff image: {}", <<>>))]

\* a save that goes to a path of the engine's own, whatever output_path is
generate_diff_image_fixed_path(img1, img2, output_path, options, files, save_ok) ==
    IF save_ok
    THEN [files |-> [files EXCEPT !["diff.png"] = Some(DiffImage(img1, img2, options))],
          ret |-> Ok(<<>>)]
    ELSE [files |-> files,
          ret |-> Err(WebshotError_config("Failed to save diff image: {}", <<>>))]

\* ImageComparator::generate_diff_image: the file system after the call and
\* what the call returns; save_ok is whether diff_img.save(output_path) succeeds
generate_diff_image(img1, img2, output_path, options, files, save_ok) ==
    IF save_ok
    THEN [files |-> [files EXCEPT ![output_path] = Some(DiffImage(img1, img2, options))],
          ret |-> Ok(<<>>)]
    ELSE [files |-> files,
          ret |-> Err(WebshotError_config("Failed to save diff image: {}", <<>>))]

\* the ComparisonResult compare_images assembles from the score <<similarity,
\* different_pixels>>, before any diff image is written
ComparisonResult(score, total_pixels, options) ==
    [similar |-> Verdict(score[1], options.threshold),
     similarity |-> score[1],
     different_pixels |-> score[2],
     total_pixels |-> total_pixels,
     algorithm |-> options.algorithm,
     threshold |-> options.threshold,
     diff_image_path |-> None]

\* an end of compare_images that drops the error of a failed save
GenerateAndReturn_swallows(result, img1, img2, options, files, save_ok) ==
    IF options.generate_diff_image /\ options.diff_output_path # None
    THEN LET diff_path == options.diff_output_path[1]
             saved == generate_diff_image(img1, img2, diff_path, options, files, save_ok)
         IN  [ret |-> IF saved.ret.tag = "Err" THEN Ok(result)
                      ELSE Ok([result EXCEPT !.diff_image_path = Some(diff_path)]),
              files |-> saved.files,
              steps |-> <<"dimensions", "score", "save">>]
    ELSE [ret |-> Ok(result), files |-> files, steps |-> <<"dimensions", "score">>]

\* the end of compare_images: the diff image, if requested, and the return
GenerateAndReturn(result, img1, img2, options, files, save_ok) ==
    IF options.generate_diff_image /\ options.diff_output_path # None
    THEN LET diff_path == options.diff_output_path[1]
             saved == generate_diff_image(img1, img2, diff_path, options, files, save_ok)
         IN  [ret |-> IF saved.ret.tag = "Err" THEN saved.ret
                      ELSE Ok([result EXCEPT !.diff_image_path = Some(diff_path)]),
              files |-> saved.files,
              steps |-> <<"dimensions", "score", "save">>]
    ELSE [ret |-> Ok(result), files |-> files, steps |-> <<"dimensions", "score">>]

\* the mismatch error naming the first image's dimensions twice
compare_images_same_dims_twice(image1, image2, options, files, save_ok) ==
    IF dimensions(image1) # dimensions(image2)
    THEN [ret |-> Err(WebshotError_config("Image dimensions don't match: {:?} vs {:?}",
                                          <<dimensions(image1), dimensions(image1)>>)),
          files |-> files,
          steps |-> <<"dimensions">>]
    ELSE GenerateAndReturn(
            ComparisonResult(Score(image1, image2, options),
                             image1.width * image1.height, options),
            image1, image2, options, files, save_ok)

\* ImageComparator::compare_images: what it returns (ret), the file system it
\* leaves (files) and the steps it took on the way (steps)
compare_images(image1, image2, options, files, save_ok) ==
    IF dimensions(image1) # dimensions(image2)
    THEN [ret |-> Err(WebshotError_config("Image dimensions don't match: {:?} vs {:?}",
                                          <<dimensions(image1), dimensions(image2)>>)),
          files |-> files,
          steps |-> <<"dimensions">>]
    ELSE GenerateAndReturn(
            ComparisonResult(Score(image1, image2, options),
                             image1.width * image1.height, options),
            image1, image2, options, files, save_ok)

\* the outcome of compare_images, reached after both images were loaded
AfterLoading(compared) == [compared EXCEPT !.steps = <<"open1", "open2">> \o compared.steps]

\* a compare_files that reports the second image before the first
compare_files_second_first(loaded1, loaded2, options, files, save_ok) ==
    IF loaded2 = None
    THEN [ret |-> Err(WebshotError_config("Failed to load second image: {}", <<>>)),
          files |-> files,
          steps |-> <<"open1", "open2">>]
    ELSE IF loaded1 = None
    THEN [ret |-> Err(WebshotError_config("Failed to load first image: {}", <<>>)),
          files |-> files,
          steps |-> <<"open1">>]
    ELSE AfterLoading(compare_images(loaded1[1], loaded2[1], options, files, save_ok))

\* ImageComparator::compare_files; loaded1 and loaded2 are what image::open
\* gives for the two paths: Some(image), or None when the file cannot be
\* opened or decoded
compare_files(loaded1, loaded2, options, files, save_ok) ==
    IF loaded1 = None
    THEN [ret |-> Err(WebshotError_config("Failed to load first image: {}", <<>>)),
          files |-> files,
          steps |-> <<"open1">>]
    ELSE IF loaded2 = None
    THEN [ret |-> Err(WebshotError_config("Failed to load second image: {}", <<>>)),
          files |-> files,
          steps |-> <<"open1", "open2">>]
    ELSE AfterLoading(compare_images(loaded1[1], loaded2[1], options, files, save_ok))

\* ------------------------------------------------------------------------
\* The compare command (main.rs)
\* ------------------------------------------------------------------------

\* str::to_lowercase, on the strings the command line is given here
to_lowercase(str) ==
    CASE str = "SSIM" -> "ssim"
      [] str = "PSNR" -> "psnr"
      [] str = "JSON" -> "json"
      [] OTHER -> str

\* the match on the algorithm name: Some(algorithm), None for an unknown name
ParseAlgorithm(algorithm) ==
    LET name == to_lowercase(algorithm)
    IN  CASE name \in {"pixel-diff", "pixel"} -> Some("PixelDiff")
          [] name = "ssim" -> Some("SSIM")
          [] name = "mse" -> Some("MSE")
          [] name = "psnr" -> Some("PSNR")
          [] OTHER -> None

\* part.trim().parse::<u8>(), on the parts the command line is given here
ParseU8(part) ==
    CASE part = "0" -> Some(0)
      [] part = " 0" -> Some(0)
      [] part = "255" -> Some(255)
      [] OTHER -> None   \* "256", "red", "-1", ""

\* parse_rgb_color; parts is color_str.split(',')
parse_rgb_color(parts) ==
    IF Len(parts) # 3
    THEN Err(WebshotError_config(
                "Invalid color format: {}. Expected format: R,G,B (e.g., 255,0,0)", <<>>))
    ELSE IF ParseU8(parts[1]) = None
    THEN Err(WebshotError_config("Invalid red value: {}", <<parts[1]>>))
    ELSE IF ParseU8(parts[2]) = None
    THEN Err(WebshotError_config("Invalid green value: {}", <<parts[2]>>))
    ELSE IF ParseU8(parts[3]) = None
    THEN Err(WebshotError_config("Invalid blue value: {}", <<parts[3]>>))
    ELSE Ok(<<ParseU8(parts[1])[1], ParseU8(parts[2])[1], ParseU8(parts[3])[1]>>)

\* the options the command builds from its arguments
CommandOptions(args, algorithm, diff_color) ==
    LET base == ComparisonOptions_diff_color(
                    ComparisonOptions_threshold(
                        ComparisonOptions_algorithm(ComparisonOptions_new, algorithm),
                        args.threshold),
                    diff_color[1], diff_color[2], diff_color[3])
        tolerant == IF args.ignore_antialiasing
                    THEN ComparisonOptions_ignore_antialiasing(base)
                    ELSE base
    IN  IF args.diff_image /\ args.diff_path # None
        THEN ComparisonOptions_generate_diff_image(tolerant, args.diff_path[1])
        ELSE tolerant

\* an error that main swallows, ending with status 0
CommandFailed_exits_zero(error, compared, opts, files, steps) ==
    [status |-> 0, error |-> Some(error), ret |-> compared, options |-> opts,
     files |-> files, stdout |-> <<>>, steps |-> steps]

\* the command ending by returning Err(error) to main, which exits with 1
CommandFailed(error, compared, opts, files, steps) ==
    [status |-> 1, error |-> Some(error), ret |-> compared, options |-> opts,
     files |-> files, stdout |-> <<>>, steps |-> steps]

\* the output of the result and the exit of the process
EmitAndExit(args, compared, opts, steps, write_ok) ==
    LET result == compared.ret.val
        format == to_lowercase(args.format)
        emitted == [format |-> format, result |-> result]
        status == IF result.similar THEN 0 ELSE 1
    IN  IF format \notin {"json", "text"}
        THEN CommandFailed(WebshotError_config(
                               "Unknown output format: {}. Supported: json, text",
                               <<args.format>>),
                           compared.ret, Some(opts), compared.files, steps \o <<"format">>)
        ELSE IF args.output = None
        THEN [status |-> status, error |-> None, ret |-> compared.ret,
              options |-> Some(opts), files |-> compared.files,
              stdout |-> <<emitted>>, steps |-> steps \o <<"format", "emit">>]
        ELSE IF write_ok
        THEN [status |-> status, error |-> None, ret |-> compared.ret,
              options |-> Some(opts),
              files |-> [compared.files EXCEPT ![args.output[1]] = Some(emitted)],
              stdout |-> <<>>, steps |-> steps \o <<"format", "emit">>]
        ELSE CommandFailed([variant |-> "Io", message |-> [text |-> "{}", args |-> <<>>]],
                           compared.ret, Some(opts), compared.files,
                           steps \o <<"format", "emit">>)

\* the command from the call of compare_files on; compared is what it returned
CommandCompared(args, opts, steps, compared, write_ok) ==
    IF compared.ret.tag = "Err"
    THEN CommandFailed(compared.ret.err, compared.ret, Some(opts),
                       compared.files, steps \o compared.steps)
    ELSE EmitAndExit(args, compared, opts, steps \o compared.steps, write_ok)

\* the command from options.validate() on
CommandValidated(args, opts, steps, loaded1, loaded2, files, save_ok, write_ok) ==
    IF ComparisonOptions_validate(opts).tag = "Err"
    THEN CommandFailed(ComparisonOptions_validate(opts).err,
                       NotCalled, Some(opts), files, steps)
    ELSE CommandCompared(args, opts, steps,
                         compare_files(loaded1, loaded2, opts, files, save_ok),
                         write_ok)

\* main.rs compare_images with what is left of main: the exit status, the error
\* main reports, what compare_files returned, the options built, the file
\* system and standard output left, and the steps taken
main_compare_images(args, loaded1, loaded2, files, save_ok, write_ok) ==
    IF ParseAlgorithm(args.algorithm) = None
    THEN CommandFailed(WebshotError_config(
                           "Unknown algorithm: {}. Supported: pixel-diff, ssim, mse, psnr",
                           <<args.algorithm>>),
                       NotCalled, None, files, <<"algorithm">>)
    ELSE IF parse_rgb_color(args.diff_color).tag = "Err"
    THEN CommandFailed(parse_rgb_color(args.diff_color).err,
                       NotCalled, None, files, <<"algorithm", "diff_color">>)
    ELSE IF args.diff_image /\ args.diff_path = None
    THEN CommandFailed(WebshotError_config(
                           "Diff path must be specified when --diff-image is used", <<>>),
                       NotCalled, None, files, <<"algorithm", "diff_color", "diff_path">>)
    ELSE CommandValidated(
             args,
             CommandOptions(args, ParseAlgorithm(args.algorithm)[1],
                            parse_rgb_color(args.diff_color).val),
             <<"algorithm", "diff_color", "diff_path", "options", "validate">>,
             loaded1, loaded2, files, save_ok, write_ok)

\* ------------------------------------------------------------------------
\* The caller: builds the options, then compares two images
\* ------------------------------------------------------------------------

VARIABLES
    options,     \* the ComparisonOptions value under construction
    image1,      \* the first image given to compare_images, None before
    image2,      \* the second image given to compare_images, None before
    validated,   \* what options.validate() returned, NotCalled before
    ret,         \* what compare_images returned, NotCalled before
    fs,          \* the file system: path -> Option<image>
    trace,       \* the steps compare_images took
    env,         \* what the environment did to the call's file operations
    cli,         \* the run of the compare command, NotRun before
    wide,        \* a call of compare_images on images too large to enumerate
    jobs,        \* the calls of compare_images running concurrently
    probe,       \* a call of the pixel classifier on two pixels
    batch        \* a call of Browser::process_config

\* the variables the engine's calls on enumerated images leave alone
aside == <<wide, jobs, probe, batch>>

vars == <<options, image1, image2, validated, ret, fs, trace, env, cli, aside>>

Paths == {"diff.png", "out/diff.png"}

\* the values a caller passes as a threshold (out of range and NaN included)
ThresholdInputs == {Q(-1, 10), Zero, Q(1, 10), Q(1, 2), One, Q(3, 2), NaN}

DiffColors == {Red, Blue}

\* the paths given to -o
OutputPaths == {"results.json"}

EmptyFs == [p \in Paths \cup OutputPaths |-> None]

\* the command has not run
NotRun == [tag |-> "none"]

Init ==
    /\ options = ComparisonOptions_new
    /\ image1 = None
    /\ image2 = None
    /\ validated = NotCalled
    /\ ret = NotCalled
    /\ fs = EmptyFs
    /\ trace = <<>>
    /\ env = [save_ok |-> TRUE, write_ok |-> TRUE]
    /\ cli = NotRun
    /\ wide = NotRun
    /\ jobs = <<>>
    /\ probe = NotRun
    /\ batch = NotRun

Building == ret.tag = "none"

\* a builder call or a field assignment: it invalidates an earlier validate()
Rebuilt ==
    /\ validated' = NotCalled
    /\ UNCHANGED <<image1, image2, ret, fs, trace, env, cli, aside>>

Algorithm ==
    /\ Building
    /\ \E a \in Algorithms : options' = ComparisonOptions_algorithm(options, a)
    /\ Rebuilt

Threshold ==
    /\ Building
    /\ \E t \in ThresholdInputs : options' = ComparisonOptions_threshold(options, t)
    /\ Rebuilt

GenerateDiffImage ==
    /\ Building
    /\ \E p \in Paths : options' = ComparisonOptions_generate_diff_image(options, p)
    /\ Rebuilt

IgnoreAntialiasing ==
    /\ Building
    /\ options' = ComparisonOptions_ignore_antialiasing(options)
    /\ Rebuilt

DiffColor ==
    /\ Building
    /\ \E c \in DiffColors : options' = ComparisonOptions_diff_color(options, c[1], c[2], c[3])
    /\ Rebuilt

\* the fields are public: options.threshold = t
SetThresholdField ==
    /\ Building
    /\ \E t \in ThresholdInputs : options' = [options EXCEPT !.threshold = t]
    /\ Rebuilt

\* options.generate_diff_image = b
SetGenerateDiffImageField ==
    /\ Building
    /\ \E b \in BOOLEAN : options' = [options EXCEPT !.generate_diff_image = b]
    /\ Rebuilt

Validate ==
    /\ Building
    /\ validated.tag = "none"
    /\ validated' = ComparisonOptions_validate(options)
    /\ UNCHANGED <<options, image1, image2, ret, fs, trace, env, cli, aside>>

\* whether the save of the diff image succeeds is the environment's choice
SaveOutcomes(o) ==
    IF o.generate_diff_image /\ o.diff_output_path # None THEN BOOLEAN ELSE {TRUE}

\* the state a call of compare_images leaves
Returned(c) ==
    /\ ret' = c.ret
    /\ fs' = c.files
    /\ trace' = c.steps

CompareImages ==
    /\ Building
    /\ \E p \in InputPairs, save_ok \in SaveOutcomes(options) :
          /\ image1' = Some(p[1])
          /\ image2' = Some(p[2])
          /\ env' = [env EXCEPT !.save_ok = save_ok]
          /\ Returned(compare_images(p[1], p[2], options, fs, save_ok))
    /\ UNCHANGED <<options, validated, cli, aside>>

\* what image::open gives for the two paths of a call of compare_files: both
\* images, or one or both files unreadable
LoadedPairs ==
    {<<Some(p[1]), Some(p[2])>> : p \in InputPairs}
        \cup {<<None, None>>,
              <<None, Some(create_test_image(1, 1, Red))>>,
              <<Some(create_test_image(1, 1, Red)), None>>}

CompareFiles ==
    /\ Building
    /\ \E l \in LoadedPairs, save_ok \in SaveOutcomes(options) :
          /\ image1' = l[1]
          /\ image2' = l[2]
          /\ env' = [env EXCEPT !.save_ok = save_ok]
          /\ Returned(compare_files(l[1], l[2], options, fs, save_ok))
    /\ UNCHANGED <<options, validated, cli, aside>>

\* the arguments given to the compare command
AlgorithmNames == {"pixel-diff", "ssim", "mse", "PSNR", "invalid-algorithm"}
CommandThresholds == {Q(1, 10), Q(3, 2), NaN}
ColorArgs == {<<"255", "0", "0">>, <<"0", " 0", "255">>, <<"256", "0", "0">>, <<"red">>}
FormatNames == {"text", "JSON", "xml"}

CommandArgs ==
    [algorithm : AlgorithmNames,
     threshold : CommandThresholds,
     diff_image : BOOLEAN,
     diff_path : {None, Some("diff.png")},
     ignore_antialiasing : BOOLEAN,
     diff_color : ColorArgs,
     format : FormatNames,
     output : {None} \cup {Some(p) : p \in OutputPaths}]

\* what image::open gives for the two paths of the command: solid images
\* of at least one pixel, or one or both files unreadable
CommandLoadedPairs ==
    {l \in LoadedPairs :
        \A i \in 1..2 :
            l[i] # None =>
                /\ l[i][1].width * l[i][1].height >= 1
                /\ l[i][1] = create_test_image(l[i][1].width, l[i][1].height, l[i][1].px[1])}

\* step is among the steps taken
Took(steps, step) == \E i \in DOMAIN steps : steps[i] = step

\* the state the command leaves: c is what main_compare_images gives for the
\* arguments, l what the two paths held
Exited(args, l, c) ==
    /\ cli' = [tag |-> "exited", args |-> args, status |-> c.status,
               error |-> c.error, stdout |-> c.stdout]
    /\ options' = IF c.options = None THEN options ELSE c.options[1]
    /\ validated' = IF Took(c.steps, "validate")
                    THEN ComparisonOptions_validate(c.options[1])
                    ELSE validated
    /\ image1' = IF Took(c.steps, "open1") THEN l[1] ELSE None
    /\ image2' = IF Took(c.steps, "open2") THEN l[2] ELSE None
    /\ ret' = c.ret
    /\ fs' = c.files
    /\ trace' = c.steps

CompareCommand ==
    /\ Building
    /\ cli = NotRun
    /\ \E args \in CommandArgs, l \in CommandLoadedPairs :
          \E save_ok \in IF args.diff_image THEN BOOLEAN ELSE {TRUE},
             write_ok \in IF args.output # None THEN BOOLEAN ELSE {TRUE} :
             /\ env' = [save_ok |-> save_ok, write_ok |-> write_ok]
             /\ Exited(args, l, main_compare_images(args, l[1], l[2], fs, save_ok, write_ok))
    /\ UNCHANGED aside

\* the widths and heights of the images too large to enumerate
WideSides == {0, 1, 3, 40000, 46341, 65536}

\* 0.0 / n as f64, for a u32 n
ZeroOver(n) == IF n = <<>> THEN NaN ELSE Zero

\* how a call on wide images ends: with a result, computed with the number of
\* samples the squared error was divided by (None when it was not computed),
\* or in a panic
WideReturned(result, samples) ==
    [tag |-> "returned", result |-> result, samples |-> samples]
WidePanicked(at, message) == [tag |-> "panicked", at |-> at, message |-> message]

\* compare_images on two identical solid images of width x height: no position
\* differs and every squared difference is 0.0, so the sums of the loops are 0
\* and what remains are the u32 products the sums are divided by.
compare_images_wide(width, height, o, overflow_checks) ==
    LET w == BigOfNat(width)
        h == BigOfNat(height)
        total_pixels == u32_mul(w, h, overflow_checks)
        samples == u32_mul(total_pixels.val, BigOfNat(3), overflow_checks)
        mse == ZeroOver(samples.val)
        psnr100 == FLog10Tenth(FDiv(F(255 * 255), mse))
    IN  IF total_pixels.tag = "Panic"
        THEN WidePanicked("total_pixels", total_pixels.message)
        ELSE CASE o.algorithm = "PixelDiff" ->
                    WideReturned(ComparisonResult(
                        <<FSub(One, ZeroOver(total_pixels.val)), Some(0)>>,
                        total_pixels.val, o), None)
               [] o.algorithm \in {"MSE", "PSNR"} /\ samples.tag = "Panic" ->
                    WidePanicked("samples", samples.message)
               [] o.algorithm = "MSE" ->
                    WideReturned(ComparisonResult(
                        <<FDiv(One, FAdd(One, FDiv(mse, F(255)))), None>>,
                        total_pixels.val, o), Some(samples.val))
               [] o.algorithm = "PSNR" ->
                    WideReturned(ComparisonResult(
                        <<IF FEq(mse, Zero) THEN One
                          ELSE IF FLt(psnr100, Zero) THEN Zero ELSE FMin(psnr100, One),
                          None>>,
                        total_pixels.val, o), Some(samples.val))

\* a comparison of two identical solid images of any width and height, in a
\* build with or without overflow checks
CompareWide ==
    /\ wide = NotRun
    /\ \E width \in WideSides, height \in WideSides,
          a \in Algorithms \ {"SSIM"}, overflow_checks \in BOOLEAN :
          wide' = [width |-> width, height |-> height,
                   algorithm |-> a, overflow_checks |-> overflow_checks]
                  @@ compare_images_wide(width, height,
                                         ComparisonOptions_algorithm(ComparisonOptions_new, a),
                                         overflow_checks)
    /\ UNCHANGED <<options, image1, image2, validated, ret, fs, trace, env, cli, jobs, probe, batch>>

\* ------------------------------------------------------------------------
\* Concurrent comparisons: every call of compare_images runs on a thread of
\* its own, with its own images and options; the calls share the file system.
\* ------------------------------------------------------------------------

\* the number of concurrent calls
MaxJobs == 2

Jobs == 1..MaxJobs

\* the image pairs the concurrent calls compare
JobPairs ==
    {<<create_test_image(1, 1, Green), create_test_image(1, 1, Green)>>,
     <<create_test_image(1, 1, Red), create_test_image(1, 1, Green)>>,
     <<create_test_image(2, 1, Red), create_test_image(1, 1, Red)>>}

\* the diff-output path of every call (None: no diff image requested); the
\* paths of the calls that request one are pairwise distinct
JobPaths ==
    {ps \in [Jobs -> {None} \cup {Some(p) : p \in Paths}] :
        \A i \in Jobs, j \in Jobs : (i # j /\ ps[i] # None) => ps[i] # ps[j]}

JobOptions(path) ==
    IF path = None THEN ComparisonOptions_new
    ELSE ComparisonOptions_generate_diff_image(ComparisonOptions_new, path[1])

\* the caller starts the calls
Spawn ==
    /\ jobs = <<>>
    /\ Building
    /\ \E ps \in JobPaths, pairs \in [Jobs -> JobPairs], oks \in [Jobs -> BOOLEAN] :
          /\ \A j \in Jobs : ps[j] = None => oks[j]
          /\ jobs' = [j \in Jobs |->
                        [pc |-> "dimensions",
                         image1 |-> pairs[j][1],
                         image2 |-> pairs[j][2],
                         options |-> JobOptions(ps[j]),
                         save_ok |-> oks[j],
                         result |-> None,
                         ret |-> NotCalled,
                         met |-> {}]]
    /\ UNCHANGED <<options, image1, image2, validated, ret, fs, trace, env, cli, wide, probe, batch>>

\* the calls in flight beside call j
InFlight(j) == {i \in Jobs \ {j} : jobs[i].pc \in {"score", "generate"}}

\* call j takes a step to job, which leaves the file system files
JobStep(j, job, files) ==
    /\ jobs' = [jobs EXCEPT ![j] = [job EXCEPT !.met = jobs[j].met \cup InFlight(j)]]
    /\ fs' = files
    /\ UNCHANGED <<options, image1, image2, validated, ret, trace, env, cli, wide, probe, batch>>

\* comparison.rs:104-110
JobDimensions(j) ==
    /\ jobs # <<>>
    /\ jobs[j].pc = "dimensions"
    /\ IF dimensions(jobs[j].image1) # dimensions(jobs[j].image2)
       THEN JobStep(j, [jobs[j] EXCEPT
                           !.pc = "done",
                           !.ret = compare_images(jobs[j].image1, jobs[j].image2,
                                                  jobs[j].options, fs, jobs[j].save_ok).ret],
                    fs)
       ELSE JobStep(j, [jobs[j] EXCEPT !.pc = "score"], fs)

\* comparison.rs:112-134
JobScore(j) ==
    /\ jobs # <<>>
    /\ jobs[j].pc = "score"
    /\ JobStep(j, [jobs[j] EXCEPT
                      !.pc = "generate",
                      !.result = Some(ComparisonResult(
                                     Score(jobs[j].image1, jobs[j].image2, jobs[j].options),
                                     jobs[j].image1.width * jobs[j].image1.height,
                                     jobs[j].options))],
               fs)

\* the job after comparison.rs:136-145, c being what GenerateAndReturn gives
JobReturned(j, c) == [jobs[j] EXCEPT !.pc = "done", !.ret = c.ret]

\* comparison.rs:136-145
JobGenerate(j) ==
    /\ jobs # <<>>
    /\ jobs[j].pc = "generate"
    /\ JobStep(j,
               JobReturned(j, GenerateAndReturn(jobs[j].result[1], jobs[j].image1,
                                                jobs[j].image2, jobs[j].options, fs,
                                                jobs[j].save_ok)),
               GenerateAndReturn(jobs[j].result[1], jobs[j].image1, jobs[j].image2,
                                 jobs[j].options, fs, jobs[j].save_ok).files)

JobRuns == \E j \in Jobs : JobDimensions(j) \/ JobScore(j) \/ JobGenerate(j)

Build ==
    \/ Algorithm
    \/ Threshold
    \/ GenerateDiffImage
    \/ IgnoreAntialiasing
    \/ DiffColor
    \/ SetThresholdField
    \/ SetGenerateDiffImageField

Next == Build \/ CompareImages

Spec == Init /\ [][Next]_vars

\* the options alone: built, then validated
NextOptions == Build \/ Validate

SpecOptions == Init /\ [][NextOptions]_vars

\* the options built, then two files compared
NextFiles == Build \/ CompareFiles

SpecFiles == Init /\ [][NextFiles]_vars

\* the compare command run once
SpecCommand == Init /\ [][CompareCommand]_vars

\* the channel values of the pixels the classifier is called on: the ends of
\* u8 and the values around both tolerances
ChannelValues == {0, 2, 3, 5, 10, 11, 250, 255}

Pixels == ChannelValues \X ChannelValues \X ChannelValues

\* a call of pixels_similar
Classify ==
    /\ probe = NotRun
    /\ \E pixel1 \in Pixels, pixel2 \in Pixels, ignore_antialiasing \in BOOLEAN :
          probe' = [tag |-> "classified",
                    pixel1 |-> pixel1,
                    pixel2 |-> pixel2,
                    ignore_antialiasing |-> ignore_antialiasing,
                    similar |-> pixels_similar(pixel1, pixel2, ignore_antialiasing)]
    /\ UNCHANGED <<options, image1, image2, validated, ret, fs, trace, env, cli, wide, jobs, batch>>

SpecPixels == Init /\ [][Classify]_vars

\* ------------------------------------------------------------------------
\* Browser::process_config: the screenshots of a configuration, taken with at
\* most `parallel` of them at a time
\* ------------------------------------------------------------------------

\* the largest number of screenshots of a configuration
MaxScreenshots == 3

\* the largest value of `parallel`
MaxParallel == 2

\* the configurations: the number of screenshots, and whether every one of
\* them passes the checks of Config::validate
Configs == [screenshots : 0..MaxScreenshots, well_formed : BOOLEAN]

\* Config::validate
Config_validate(config) ==
    IF config.screenshots = 0
    THEN Err(WebshotError_config("No screenshots defined in configuration", <<>>))
    ELSE IF ~config.well_formed
    THEN Err(WebshotError_config("Invalid URL in screenshot {}: {}", <<>>))
    ELSE Ok(<<>>)

\* a semaphore that is created without permits
Semaphore_new_empty(permits) == 0

\* tokio::sync::Semaphore::new(permits)
Semaphore_new(permits) == permits

\* the screenshots whose future is in state st
TasksIn(st) == {i \in DOMAIN batch.task : batch.task[i] = st}

\* the futures buffer_unordered holds
Buffered == TasksIn("acquiring") \cup TasksIn("processing")

\* process_config is called: it validates the configuration and sets up the
\* semaphore and the stream of futures, none of which has been polled
ProcessConfig ==
    /\ batch = NotRun
    /\ \E config \in Configs, parallel \in 1..MaxParallel :
          batch' =
              IF Config_validate(config).tag = "Err"
              THEN [tag |-> "returned",
                    config |-> config,
                    parallel |-> parallel,
                    permits |-> 0,
                    next |-> 1,
                    task |-> [i \in 1..config.screenshots |-> "created"],
                    attempts |-> [i \in 1..config.screenshots |-> 0],
                    results |-> [i \in 1..config.screenshots |-> NotCalled],
                    ret |-> Config_validate(config)]
              ELSE [tag |-> "collecting",
                    config |-> config,
                    parallel |-> parallel,
                    permits |-> Semaphore_new(parallel),
                    next |-> 1,
                    task |-> [i \in 1..config.screenshots |-> "created"],
                    attempts |-> [i \in 1..config.screenshots |-> 0],
                    results |-> [i \in 1..config.screenshots |-> NotCalled],
                    ret |-> NotCalled]
    /\ UNCHANGED <<options, image1, image2, validated, ret, fs, trace, env, cli, wide, jobs, probe>>

\* buffer_unordered(parallel) takes the next future from the iterator while
\* it holds fewer than `parallel` of them
TakeNext ==
    /\ batch.tag = "collecting"
    /\ batch.next <= batch.config.screenshots
    /\ Cardinality(Buffered) < batch.parallel
    /\ batch' = [batch EXCEPT !.task[batch.next] = "acquiring", !.next = batch.next + 1]
    /\ UNCHANGED <<options, image1, image2, validated, ret, fs, trace, env, cli, wide, jobs, probe>>

\* let _permit = semaphore.acquire().await.unwrap(); then
\* process_single_screenshot begins
Acquire(i) ==
    /\ batch.tag = "collecting"
    /\ batch.task[i] = "acquiring"
    /\ batch.permits > 0
    /\ batch' = [batch EXCEPT !.permits = batch.permits - 1,
                              !.task[i] = "processing",
                              !.attempts[i] = batch.attempts[i] + 1]
    /\ UNCHANGED <<options, image1, image2, validated, ret, fs, trace, env, cli, wide, jobs, probe>>

\* process_single_screenshot ends, with or without an error; _permit is
\* dropped and the result goes to the collected vector
Finish(i) ==
    /\ batch.tag = "collecting"
    /\ batch.task[i] = "processing"
    /\ \E result \in {Ok(<<>>), Err([variant |-> "Screenshot"])} :
          batch' = [batch EXCEPT !.permits = batch.permits + 1,
                                 !.task[i] = "finished",
                                 !.results[i] = result]
    /\ UNCHANGED <<options, image1, image2, validated, ret, fs, trace, env, cli, wide, jobs, probe>>

\* collect() is ready when the iterator is exhausted and no future is held;
\* the errors are logged and process_config returns Ok(())
CollectAndReturn ==
    /\ batch.tag = "collecting"
    /\ batch.next > batch.config.screenshots
    /\ Buffered = {}
    /\ batch' = [batch EXCEPT !.tag = "returned", !.ret = Ok(<<>>)]
    /\ UNCHANGED <<options, image1, image2, validated, ret, fs, trace, env, cli, wide, jobs, probe>>

Polled ==
    /\ batch.tag = "collecting"
    /\ \E i \in DOMAIN batch.task : Acquire(i) \/ Finish(i)

NextBatch == ProcessConfig \/ TakeNext \/ Polled \/ CollectAndReturn

\* the executor keeps polling process_config's future, and every screenshot
\* attempt ends (every browser operation has a timeout)
SpecBatch == Init /\ [][NextBatch]_vars /\ WF_vars(NextBatch)

\* the options reachable by builder calls alone
NextBuilder == Algorithm \/ Threshold \/ GenerateDiffImage \/ IgnoreAntialiasing \/ DiffColor

SpecBuilder == Init /\ [][NextBuilder]_vars

\* comparisons of images too large to enumerate
SpecWide == Init /\ [][CompareWide]_vars

\* concurrent comparisons
NextJobs == Spawn \/ JobRuns

SpecJobs == Init /\ [][NextJobs]_vars

\* ------------------------------------------------------------------------
\* Properties
\* ------------------------------------------------------------------------

Succeeded == ret.tag = "Ok"
Failed == ret.tag = "Err"
Called == ret.tag # "none"
Result == ret.val
Img1 == image1[1]
Img2 == image2[1]
OptionsValid == ComparisonOptions_validate(options).tag = "Ok"
DimensionMismatchText == "Image dimensions don't match: {:?} vs {:?}"
ThresholdErrorText == "Threshold must be between 0.0 and 1.0, got: {}"
Identical == Img1 = Img2
HasPixels(img) == img.width * img.height >= 1

\* C1: in every successful result, similar is exactly
\* similarity >= 1.0 - threshold, for the similarity and threshold the result holds.
C1_VerdictIsThresholdTest ==
    Succeeded =>
        (Result.similar <=> FGe(Result.similarity, FSub(One, Result.threshold)))

\* a result judged similar although the images are not scored 1.0
C1_Witness ==
    /\ Succeeded
    /\ Result.similar
    /\ FLt(Result.similarity, One)
    /\ FLt(Result.threshold, One)

\* C2: with valid options, every successful result has a similarity within
\* [0.0, 1.0], whatever the algorithm and the size of the images.
C2_SimilarityInUnitInterval ==
    (Succeeded /\ OptionsValid) => InUnit(Result.similarity)

\* C3: compare_images of two images of different dimensions returns the
\* dimension-mismatch error naming both dimensions, having scored nothing and
\* written nothing.
C3_DimensionMismatchFails ==
    (Called /\ dimensions(Img1) # dimensions(Img2)) =>
        /\ Failed
        /\ ret.err.variant = "Config"
        /\ ret.err.message.text = DimensionMismatchText
        /\ ret.err.message.args = <<dimensions(Img1), dimensions(Img2)>>
        /\ trace = <<"dimensions">>
        /\ fs = EmptyFs

\* a mismatch met with a diff image requested
C3_Witness ==
    /\ Called
    /\ dimensions(Img1) = <<2, 1>>
    /\ dimensions(Img2) = <<1, 1>>
    /\ options.generate_diff_image
    /\ options.diff_output_path # None
    /\ Failed

\* C4: compare_images with invalid options returns the configuration error of
\* validate() before it inspects the images, scores them or writes a file.
C4_ValidatesFirst ==
    (Called /\ ~OptionsValid) =>
        /\ Failed
        /\ ret.err.variant = "Config"
        /\ ret.err.message.text = ComparisonOptions_validate(options).err.message.text
        /\ trace = <<>>
        /\ fs = EmptyFs

\* the threshold is outside [0.0, 1.0] (NaN is outside)
ThresholdOutside(t) == IsNaN(t) \/ FLt(t, Zero) \/ FLt(One, t)

\* C5: validate() returns a configuration error exactly when the threshold is
\* outside [0.0, 1.0] or a diff image is requested without a path, and the
\* threshold error takes precedence.
C5_ValidateRejectsExactly ==
    validated.tag # "none" =>
        /\ validated.tag = "Err" <=>
              \/ ThresholdOutside(options.threshold)
              \/ options.generate_diff_image /\ options.diff_output_path = None
        /\ validated.tag = "Err" =>
              /\ validated.err.variant = "Config"
              /\ validated.err.message.text = ThresholdErrorText
                    <=> ThresholdOutside(options.threshold)

\* options with threshold exactly 1.0 and a diff image with its path are accepted
C5_Witness ==
    /\ validated.tag = "Ok"
    /\ options.threshold = One
    /\ options.generate_diff_image

\* C6: options whose threshold was set to 1.5 or -0.1 by the builder method
\* threshold() fail validation with the threshold error; set to 0.0 or 1.0
\* they do not.
C6_BuilderThresholdValidated ==
    [][/\ \A t \in {Q(3, 2), Q(-1, 10)} :
            options' = ComparisonOptions_threshold(options, t) =>
                /\ ComparisonOptions_validate(options').tag = "Err"
                /\ ComparisonOptions_validate(options').err.message.text = ThresholdErrorText
       /\ \A t \in {Zero, One} :
            options' = ComparisonOptions_threshold(options, t) =>
                ThresholdInRange(options'.threshold)]_vars

\* C7: a successful result holds different_pixels exactly when the algorithm
\* is PixelDiff.
C7_DifferentPixelsOnlyForPixelDiff ==
    Succeeded =>
        /\ Result.algorithm = options.algorithm
        /\ Result.different_pixels # None <=> options.algorithm = "PixelDiff"

\* an SSIM result without a count
C7_Witness ==
    /\ Succeeded
    /\ options.algorithm = "SSIM"
    /\ Result.different_pixels = None
    /\ HasPixels(Img1)

\* C8: for identical images of any dimensions PixelDiff returns similarity 1.0
\* and Some(0), PSNR returns similarity 1.0, and the verdict is similar for
\* every threshold in [0, 1].
C8_IdenticalImagesScoreOne ==
    (Succeeded /\ Identical /\ options.algorithm \in {"PixelDiff", "PSNR"}) =>
        /\ FEq(Result.similarity, One)
        /\ options.algorithm = "PixelDiff" => Result.different_pixels = Some(0)
        /\ ThresholdInRange(options.threshold) => Result.similar

\* C9: for identical images that have at least one pixel, every algorithm
\* returns a similarity of at least 0.9.
C9_IdenticalImagesScoreHigh ==
    (Succeeded /\ Identical /\ HasPixels(Img1)) => FGe(Result.similarity, Q(9, 10))

Solid(img) == \A i, j \in 1..(img.width * img.height) : img.px[i] = img.px[j]

\* some channel differs by more than 2
StrictlyDifferent(pixel1, pixel2) == \E ch \in 1..3 : Abs(pixel1[ch] - pixel2[ch]) > 2

\* C10: for two solid images of colours that differ by more than 2 in some
\* channel, PixelDiff without ignore_antialiasing counts every pixel as
\* different, returns similarity 0.0, and at the default threshold 0.1 the
\* verdict is not similar.
C10_SolidDifferentImagesScoreZero ==
    (/\ Succeeded
     /\ options.algorithm = "PixelDiff"
     /\ ~options.ignore_antialiasing
     /\ dimensions(Img1) = dimensions(Img2)
     /\ HasPixels(Img1)
     /\ Solid(Img1)
     /\ Solid(Img2)
     /\ StrictlyDifferent(Img1.px[1], Img2.px[1])) =>
        /\ Result.different_pixels = Some(Img1.width * Img1.height)
        /\ FEq(Result.similarity, Zero)
        /\ Result.total_pixels = Img1.width * Img1.height
        /\ options.threshold = ComparisonOptions_default.threshold => ~Result.similar

\* solid red against solid near-red (250,5,5), two pixels each, default threshold
C10_Witness ==
    /\ Succeeded
    /\ options.algorithm = "PixelDiff"
    /\ ~options.ignore_antialiasing
    /\ Img1 = create_test_image(2, 1, Red)
    /\ Img2 = create_test_image(2, 1, NearRed)
    /\ options.threshold = ComparisonOptions_default.threshold
    /\ Result.different_pixels = Some(2)

\* a diff image was written by the call and its path is in the result
DiffWritten == Succeeded /\ Result.diff_image_path # None

\* the diff image the call wrote
WrittenDiff == fs[Result.diff_image_path[1]][1]

\* C11: the diff image written has the dimensions of the inputs, and at every
\* position holds the first image's pixel where pixels_similar holds of the
\* pair and diff_color where it does not.
C11_DiffImagePixels ==
    DiffWritten =>
        /\ fs[Result.diff_image_path[1]] # None
        /\ dimensions(WrittenDiff) = dimensions(Img1)
        /\ dimensions(WrittenDiff) = dimensions(Img2)
        /\ Len(WrittenDiff.px) = Img1.width * Img1.height
        /\ \A x \in 0..(Img1.width - 1), y \in 0..(Img1.height - 1) :
              get_pixel(WrittenDiff, x, y) =
                  IF pixels_similar(get_pixel(Img1, x, y), get_pixel(Img2, x, y),
                                    options.ignore_antialiasing)
                  THEN get_pixel(Img1, x, y)
                  ELSE options.diff_color

\* red against <<near-red, green>> with diff_color blue and the anti-aliasing
\* tolerance: the diff image keeps red (not near-red) and paints blue
C11_Witness ==
    /\ DiffWritten
    /\ Img1 = Image(2, 1, <<Red, Red>>)
    /\ Img2 = Image(2, 1, <<NearRed, Green>>)
    /\ options.ignore_antialiasing
    /\ options.diff_color = Blue
    /\ WrittenDiff = Image(2, 1, <<Red, Blue>>)

\* C12: the diff image written is the one compare_images writes for the same
\* images and options under each of the other three algorithms.
C12_DiffImageIgnoresAlgorithm ==
    DiffWritten =>
        \A a \in Algorithms \ {options.algorithm} :
            compare_images(Img1, Img2, [options EXCEPT !.algorithm = a],
                           EmptyFs, TRUE).files = fs

\* a diff image written while scoring with SSIM, whose pixels are within the
\* anti-aliasing tolerance without being equal
C12_Witness ==
    /\ DiffWritten
    /\ options.algorithm = "SSIM"
    /\ options.ignore_antialiasing
    /\ Img1 = Image(1, 2, <<NearRed, Green>>)
    /\ Img2 = Image(1, 2, <<Red, Red>>)
    /\ WrittenDiff = Image(1, 2, <<NearRed, options.diff_color>>)

\* C13: a successful result holds diff_image_path exactly when
\* options.generate_diff_image is set; the path is options.diff_output_path and
\* the diff image is in the file system under it.
C13_DiffPathIffRequested ==
    Succeeded =>
        /\ Result.diff_image_path # None <=> options.generate_diff_image
        /\ Result.diff_image_path # None =>
              /\ Result.diff_image_path = options.diff_output_path
              /\ fs[Result.diff_image_path[1]] = Some(DiffImage(Img1, Img2, options))

SaveStepText == "save"
SaveErrorText == "Failed to save diff image: {}"

\* diff_img.save was called and failed
SaveFailed == Called /\ SaveStepText \in {trace[i] : i \in DOMAIN trace} /\ ~env.save_ok

\* C14: when the save of the requested diff image fails, compare_images
\* returns the error of the save and no result.
C14_SaveFailureReported ==
    SaveFailed =>
        /\ Failed
        /\ ret.err.message.text = SaveErrorText

\* a failed save of a diff image of images that would have been judged similar
C14_Witness ==
    /\ SaveFailed
    /\ Failed
    /\ options.generate_diff_image
    /\ Identical
    /\ HasPixels(Img1)

\* the paths whose content the call changed
WrittenPaths == {p \in DOMAIN fs : fs[p] # EmptyFs[p]}

\* the number of save steps the call took
SaveSteps == Cardinality({i \in DOMAIN trace : trace[i] = SaveStepText})

\* C15: a call of compare_images saves at most once and changes no path but
\* options.diff_output_path; it saves nothing when generate_diff_image is
\* false or the dimensions differ; the call leaves the options as they were.
C15_AtMostOneWrite ==
    /\ [](Called =>
            /\ SaveSteps <= 1
            /\ Cardinality(WrittenPaths) <= SaveSteps
            /\ \A p \in WrittenPaths : options.diff_output_path = Some(p)
            /\ (~options.generate_diff_image \/ dimensions(Img1) # dimensions(Img2)) =>
                  /\ SaveSteps = 0
                  /\ fs = EmptyFs)
    /\ [][ret' # ret => options' = options]_vars

\* a call that wrote the diff image under the second path and nothing else
C15_Witness ==
    /\ Succeeded
    /\ options.diff_output_path = Some("out/diff.png")
    /\ WrittenPaths = {"out/diff.png"}
    /\ SaveSteps = 1

LoadFirstErrorText == "Failed to load first image: {}"
LoadSecondErrorText == "Failed to load second image: {}"

\* C16: compare_files fails with the error of the first image when the first
\* path cannot be loaded, whatever the second, and with the error of the
\* second image when only the second cannot; it then compares and writes nothing.
C16_LoadFailuresDistinct ==
    Called =>
        /\ image1 = None =>
              /\ Failed
              /\ ret.err.message.text = LoadFirstErrorText
              /\ trace = <<"open1">>
              /\ fs = EmptyFs
        /\ (image1 # None /\ image2 = None) =>
              /\ Failed
              /\ ret.err.message.text = LoadSecondErrorText
              /\ trace = <<"open1", "open2">>
              /\ fs = EmptyFs
        /\ (image1 # None /\ image2 # None) =>
              (Failed => ret.err.message.text \notin {LoadFirstErrorText, LoadSecondErrorText})

\* neither file can be loaded, a diff image is requested: the first is reported
C16_Witness ==
    /\ Called
    /\ image1 = None
    /\ image2 = None
    /\ options.generate_diff_image
    /\ options.diff_output_path # None
    /\ Failed
    /\ ret.err.message.text = LoadFirstErrorText

\* the compare command has run and the process has exited
CommandExited == cli.tag = "exited"

\* C17: when the command's comparison completes (and the file given to -o,
\* if any, can be written), the exit status is 0 if the verdict is similar and
\* 1 if it is not.
C17_ExitStatusIsVerdict ==
    (CommandExited /\ Succeeded /\ env.write_ok) =>
        /\ Result.similar => cli.status = 0
        /\ ~Result.similar => cli.status = 1

\* the messages of the configuration errors of the command
ConfigurationErrorTexts ==
    {"Unknown algorithm: {}. Supported: pixel-diff, ssim, mse, psnr",
     "Invalid color format: {}. Expected format: R,G,B (e.g., 255,0,0)",
     "Invalid red value: {}", "Invalid green value: {}", "Invalid blue value: {}",
     "Diff path must be specified when --diff-image is used",
     ThresholdErrorText,
     "Diff output path must be specified when generating diff image",
     "Unknown output format: {}. Supported: json, text"}

\* the command ended with a configuration error
ConfigurationErrorReported ==
    /\ CommandExited
    /\ cli.error # None
    /\ cli.error[1].variant = "Config"
    /\ cli.error[1].message.text \in ConfigurationErrorTexts

\* the steps that load, compare or write
ComputationSteps == {"open1", "open2", "dimensions", "score", "save", "emit"}

\* C18: when the command ends with a configuration error, no image was
\* loaded or compared and nothing was written.
C18_ConfigurationErrorsFirst ==
    ConfigurationErrorReported =>
        /\ \A i \in DOMAIN trace : trace[i] \notin ComputationSteps
        /\ image1 = None
        /\ image2 = None
        /\ ret = NotCalled
        /\ fs = EmptyFs

\* why the call failed: a path could not be loaded, the dimensions differ, or
\* the save of the diff image failed
FailureCategory ==
    IF image1 = None \/ image2 = None THEN "load"
    ELSE IF dimensions(Img1) # dimensions(Img2) THEN "dimension"
    ELSE "write"

\* an error of each category, as the engine returns it
CategoryError ==
    [configuration |->
        ComparisonOptions_validate(ComparisonOptions_generate_diff_image(
            [ComparisonOptions_new EXCEPT !.threshold = Q(3, 2)], "diff.png")).err,
     load |->
        compare_files(None, None, ComparisonOptions_new, EmptyFs, TRUE).ret.err,
     dimension |->
        compare_images(create_test_image(1, 1, Red), create_test_image(2, 1, Red),
                       ComparisonOptions_new, EmptyFs, TRUE).ret.err,
     write |->
        compare_images(create_test_image(1, 1, Red), create_test_image(1, 1, Red),
                       ComparisonOptions_generate_diff_image(ComparisonOptions_new, "diff.png"),
                       EmptyFs, FALSE).ret.err]

\* what a caller can inspect of an error without reading its message
ErrorCase(e) == e.variant

\* C19: the error of a failed call is of a case that no error of another
\* category has: the case alone tells the category.
C19_ErrorCategoriesDistinct ==
    Failed =>
        /\ ErrorCase(ret.err) = ErrorCase(CategoryError[FailureCategory])
        /\ \A c \in DOMAIN CategoryError \ {FailureCategory} :
              ErrorCase(ret.err) # ErrorCase(CategoryError[c])

\* the verdict compare_images returns for the same images and options at
\* threshold t
VerdictAt(t) ==
    compare_images(Img1, Img2, [options EXCEPT !.threshold = t], EmptyFs, TRUE).ret.val.similar

WideCalled == wide.tag # "none"

\* the mathematical product width x height of the wide images
WidePixels == BigMul(BigOfNat(wide.width), BigOfNat(wide.height))

\* C21: a comparison returns, whatever the dimensions, with total_pixels the
\* product width x height, and for MSE and PSNR the squared error was divided
\* by width x height x 3: no u32 product wraps or panics.
C21_ProductsExact ==
    WideCalled =>
        /\ wide.tag = "returned"
        /\ wide.result.total_pixels = WidePixels
        /\ wide.algorithm \in {"MSE", "PSNR"} =>
              wide.samples = Some(BigMul(WidePixels, BigOfNat(3)))

\* what call j returns and leaves when it runs alone
Alone(j) ==
    compare_images(jobs[j].image1, jobs[j].image2, jobs[j].options, EmptyFs, jobs[j].save_ok)

\* C22: a call that ran beside others, with pairwise distinct diff-output
\* paths, has returned what it returns alone and has left under its path the
\* file it leaves alone; when all calls are done the file system holds what
\* the calls leave alone and nothing else.
C22_NoInterference ==
    jobs # <<>> =>
        /\ \A j \in Jobs :
              jobs[j].pc = "done" =>
                  /\ jobs[j].ret = Alone(j).ret
                  /\ jobs[j].options.diff_output_path # None =>
                        fs[jobs[j].options.diff_output_path[1]]
                            = Alone(j).files[jobs[j].options.diff_output_path[1]]
        /\ (\A j \in Jobs : jobs[j].pc = "done") =>
              \A p \in DOMAIN fs :
                  fs[p] # None => \E j \in Jobs : Alone(j).files[p] = fs[p]

\* two calls that overlapped, each leaving a different diff image under its
\* own path
C22_Witness ==
    /\ jobs # <<>>
    /\ \A j \in Jobs : jobs[j].pc = "done" /\ jobs[j].ret.tag = "Ok"
    /\ 2 \in jobs[1].met
    /\ 1 \in jobs[2].met
    /\ fs["diff.png"] # None
    /\ fs["out/diff.png"] # None
    /\ fs["diff.png"] # fs["out/diff.png"]
    /\ jobs[1].ret.val.diff_image_path = Some("diff.png")
    /\ jobs[2].ret.val.diff_image_path = Some("out/diff.png")

\* C23: options built by builder calls alone hold a diff_output_path exactly
\* when generate_diff_image is true.
C23_PathIffGenerate ==
    (options.diff_output_path # None) <=> options.generate_diff_image

\* a diff image requested among other builder calls
C23_Witness ==
    /\ options.generate_diff_image
    /\ options.diff_output_path = Some("out/diff.png")
    /\ options.algorithm = "SSIM"
    /\ options.ignore_antialiasing
    /\ options.diff_color = Blue
    /\ options.threshold = One

Classified == probe.tag = "classified"

\* C24: two pixels are classified equal exactly when each of the three
\* channels differs by at most 10 with ignore_antialiasing and by at most 2
\* without; identical pixels are equal; (255,0,0) and (250,5,5) are equal
\* with ignore_antialiasing only.
C24_ClassifierIsChannelTolerance ==
    Classified =>
        /\ probe.similar <=>
              \A c \in 1..3 :
                  Abs(probe.pixel1[c] - probe.pixel2[c])
                      <= (IF probe.ignore_antialiasing THEN 10 ELSE 2)
        /\ probe.pixel1 = probe.pixel2 => probe.similar
        /\ (probe.pixel1 = <<255, 0, 0>> /\ probe.pixel2 = <<250, 5, 5>>) =>
              (probe.similar <=> probe.ignore_antialiasing)

\* (255,0,0) and (250,5,5) classified equal under ignore_antialiasing
C24_Witness ==
    /\ Classified
    /\ probe.pixel1 = <<255, 0, 0>>
    /\ probe.pixel2 = <<250, 5, 5>>
    /\ probe.ignore_antialiasing
    /\ probe.similar

\* the positions (x, y) of the compared images that the classifier deems
\* different
DifferentPositions ==
    {p \in (0..(Img1.width - 1)) \X (0..(Img1.height - 1)) :
        ~pixels_similar(get_pixel(Img1, p[1], p[2]), get_pixel(Img2, p[1], p[2]),
                        options.ignore_antialiasing)}

\* C25: PixelDiff returns Some(d) with d the number of positions the
\* classifier deems different, each position counted once, and similarity
\* 1 - d/total_pixels as f64 computes it; 0 <= d <= total_pixels.
C25_PixelDiffCountsPositions ==
    (Succeeded /\ options.algorithm = "PixelDiff") =>
        /\ Result.different_pixels = Some(Cardinality(DifferentPositions))
        /\ Result.total_pixels = Img1.width * Img1.height
        /\ Result.similarity =
              FSub(One, FDiv(F(Cardinality(DifferentPositions)), F(Result.total_pixels)))
        /\ 0 <= Result.different_pixels[1]
        /\ Result.different_pixels[1] <= Result.total_pixels

\* one of two positions differs under ignore_antialiasing
C25_Witness ==
    /\ Succeeded
    /\ options.algorithm = "PixelDiff"
    /\ options.ignore_antialiasing
    /\ Img1 = Image(1, 2, <<NearRed, Green>>)
    /\ Img2 = Image(1, 2, <<Red, Red>>)
    /\ DifferentPositions = {<<0, 1>>}
    /\ Result.different_pixels = Some(1)
    /\ Result.similarity = Q(1, 2)

\* the pairs of images of the dimensions of the compared ones
SameDimensionPairs ==
    {p \in InputPairs :
        dimensions(p[1]) = dimensions(Img1) /\ dimensions(p[2]) = dimensions(Img1)}

\* C26: the MSE similarity is 1 / (1 + mse/255) with mse the squared error
\* divided by width x height x 3; it lies in (0, 1], is smaller for a pair of
\* larger squared error, and is 1.0 exactly for identical images.
C26_MseSimilarity ==
    (Succeeded /\ options.algorithm = "MSE") =>
        /\ Result.similarity =
              FDiv(One, FAdd(One, FDiv(FDiv(F(SquaredError(Img1, Img2)),
                                            F(Img1.width * Img1.height * 3)),
                                       F(255))))
        /\ ~FLe(Result.similarity, Zero) /\ FLe(Result.similarity, One)
        /\ FEq(Result.similarity, One) <=> Img1 = Img2
        /\ \A p \in SameDimensionPairs :
              SquaredError(p[1], p[2]) > SquaredError(Img1, Img2) =>
                  FLt(mse_comparison(p[1], p[2]), Result.similarity)

BatchCalled == batch.tag # "none"
BatchReturned == batch.tag = "returned"

\* no screenshot is attempted twice, at most `parallel` attempts are in
\* progress, and process_config returns only when all attempts have ended
BatchSafe ==
    BatchCalled =>
        /\ \A i \in DOMAIN batch.task : batch.attempts[i] <= 1
        /\ Cardinality(TasksIn("processing")) <= batch.parallel
        /\ BatchReturned => TasksIn("acquiring") \cup TasksIn("processing") = {}

\* every screenshot of the configuration has been attempted once
AllAttempted ==
    \A i \in DOMAIN batch.task : batch.attempts[i] = 1 /\ batch.task[i] = "finished"

\* C27 as stated: whenever process_config has returned, every configured
\* screenshot has been attempted exactly once, never more than `parallel` of
\* them at a time, and process_config does return.
C27_EveryScreenshotAttempted ==
    /\ [](BatchSafe /\ (BatchReturned => AllAttempted))
    /\ <>BatchReturned

\* C27, for configurations that pass Config::validate: every screenshot is
\* attempted exactly once, never more than `parallel` at a time, and
\* process_config returns Ok; a configuration that fails validation is
\* rejected before any attempt.
C27_ValidConfigProcessed ==
    /\ [](/\ BatchSafe
          /\ BatchReturned =>
                IF Config_validate(batch.config).tag = "Ok"
                THEN AllAttempted /\ batch.ret = Ok(<<>>)
                ELSE /\ batch.ret = Config_validate(batch.config)
                     /\ \A i \in DOMAIN batch.task : batch.attempts[i] = 0)
    /\ <>BatchReturned

\* three screenshots processed two at a time, one of them failing
C27_Witness ==
    /\ BatchReturned
    /\ batch.config.screenshots = 3
    /\ batch.parallel = 2
    /\ AllAttempted
    /\ batch.results[2].tag = "Err"
    /\ batch.results[3].tag = "Ok"
    /\ batch.ret = Ok(<<>>)

\* what compare_images gives for the compared images in the other order
Swapped == compare_images(Img2, Img1, options, EmptyFs, TRUE)

\* the scores and the verdict of a returned comparison
ScoresOf(r) ==
    IF r.tag = "Ok"
    THEN <<r.val.similarity, r.val.different_pixels, r.val.similar, r.val.total_pixels>>
    ELSE <<>>

\* C28: comparing the same two images in the other order returns the same
\* similarity, the same different_pixels and the same verdict, under every
\* algorithm.
C28_ScoringSymmetric ==
    Succeeded => ScoresOf(Swapped.ret) = ScoresOf(ret)

\* two different images whose diff images differ with the order, while the
\* scores do not
C28_Witness ==
    /\ DiffWritten
    /\ options.algorithm = "PixelDiff"
    /\ options.ignore_antialiasing
    /\ Img1 = Image(1, 2, <<NearRed, Green>>)
    /\ Img2 = Image(1, 2, <<Red, Red>>)
    /\ Result.different_pixels = Some(1)
    /\ Swapped.ret.val.different_pixels = Some(1)
    /\ Swapped.files[Result.diff_image_path[1]] # fs[Result.diff_image_path[1]]

\* the index of position p in the row-major pixels of the compared images
IndexOf(p) == p[2] * Img1.width + p[1] + 1

\* the indexes generate_diff_image paints with diff_color
PaintedIndexes ==
    {i \in 1..(Img1.width * Img1.height) : Painted(Img1, Img2, options, i)}

\* C29: the positions the written diff image was painted at with diff_color
\* are the positions PixelDiff counts as different, and under PixelDiff their
\* number is different_pixels; the other positions hold the first image's
\* pixel.
C29_PaintedAreCounted ==
    DiffWritten =>
        /\ PaintedIndexes = {IndexOf(p) : p \in DifferentPositions}
        /\ Cardinality(PaintedIndexes)
              = pixel_diff_comparison(Img1, Img2, options)[2][1]
        /\ options.algorithm = "PixelDiff" =>
              Result.different_pixels = Some(Cardinality(PaintedIndexes))
        /\ \A i \in 1..(Img1.width * Img1.height) :
              WrittenDiff.px[i] = IF i \in PaintedIndexes THEN options.diff_color
                                  ELSE Img1.px[i]

\* a diff image with one of two positions painted, under ignore_antialiasing
C29_Witness ==
    /\ DiffWritten
    /\ options.algorithm = "PixelDiff"
    /\ options.ignore_antialiasing
    /\ options.diff_color = Blue
    /\ Img1 = Image(2, 1, <<NearRed, Green>>)
    /\ Img2 = Image(2, 1, <<Red, Red>>)
    /\ PaintedIndexes = {2}
    /\ Result.different_pixels = Some(1)
    /\ WrittenDiff = Image(2, 1, <<NearRed, Blue>>)

\* the result as the command emits it in the requested format
EmittedResult == [format |-> to_lowercase(cli.args.format), result |-> Result]

\* the result went to standard output, or to the file given to -o
ResultEmitted ==
    IF cli.args.output = None
    THEN cli.stdout = <<EmittedResult>>
    ELSE fs[cli.args.output[1]] = Some(EmittedResult)

\* the arguments, the files or the environment of the run lead to an error
ErrorPath ==
    \/ ParseAlgorithm(cli.args.algorithm) = None
    \/ parse_rgb_color(cli.args.diff_color).tag = "Err"
    \/ cli.args.diff_image /\ cli.args.diff_path = None
    \/ Failed
    \/ Took(trace, "open1") /\ image1 = None
    \/ Took(trace, "open2") /\ image2 = None
    \/ Took(trace, "save") /\ ~env.save_ok
    \/ to_lowercase(cli.args.format) \notin {"json", "text"}
    \/ Took(trace, "emit") /\ cli.args.output # None /\ ~env.write_ok
    \/ cli.error # None

\* C30: the command exits with status 0 only when the comparison returned a
\* similar result, the result was emitted in the requested format and the
\* requested diff image was written; every error path ends with a status
\* other than 0.
C30_ZeroOnlyAfterEmit ==
    CommandExited =>
        /\ cli.status = 0 =>
              /\ Succeeded
              /\ Result.similar
              /\ cli.error = None
              /\ to_lowercase(cli.args.format) \in {"json", "text"}
              /\ ResultEmitted
              /\ cli.args.diff_image =>
                    /\ Result.diff_image_path = cli.args.diff_path
                    /\ fs[cli.args.diff_path[1]] = Some(DiffImage(Img1, Img2, options))
        /\ ErrorPath => cli.status # 0

\* a similar pair, the result written as JSON to the -o file and the diff
\* image to its path, and status 0
C30_Witness ==
    /\ CommandExited
    /\ cli.status = 0
    /\ cli.args.format = "JSON"
    /\ cli.args.output = Some("results.json")
    /\ fs["results.json"] = Some(EmittedResult)
    /\ cli.args.diff_image
    /\ fs["diff.png"] # None
    /\ Result.similar
    /\ Img1 # Img2

====
